---- MODULE Spec2Model ----
(***************************************************************************)
(* Decision-threshold resolution, admin threshold update and retraining of *)
(* the Student Performance Prediction backend (backend/app/main.py and     *)
(* backend/app/ml/train.py).                                               *)
(*                                                                         *)
(* Floats are kept in hundredths: 0.6 is 60, 1.0 is Unit.  Python values   *)
(* are records [t |-> type tag, v |-> payload].  The metadata file is a    *)
(* record [exists, perm, text]; its text is the sequence of chunks that    *)
(* json.dump streams to the file ("{", one chunk per item, "}"), so that a *)
(* write that stops half way leaves a text json.load rejects.              *)
(***************************************************************************)
EXTENDS Integers, Sequences, FiniteSets, TLC

VARIABLES metadataFile, artifact, now, last

vars == <<metadataFile, artifact, now, last>>

---------------------------------------------------------------------------
(* Program constants *)

\* the float 1.0 of "0.0 < threshold < 1.0", in hundredths
Unit == 100
\* "return 0.6, 'default'"
DEFAULT_THRESHOLD == 60
\* "recommended_threshold": 0.6
RECOMMENDED_THRESHOLD == 60
\* "if len(df) < 10"
MIN_SAMPLES == 10

(* Bounds of the model *)

\* admin threshold updates read the clock; the clock stops here
MaxClock == 3

---------------------------------------------------------------------------
(* Python values *)

None == [t |-> "NoneType", v |-> 0]
PyFloat(n) == [t |-> "float", v |-> n]
PyNaN == [t |-> "float:nan", v |-> 0]
PyInf == [t |-> "float:inf", v |-> 0]
PyInt(n) == [t |-> "int", v |-> n]
\* an int beyond the range of a double (a JSON integer literal of 400 digits)
PyBigInt == [t |-> "int:big", v |-> 0]
PyBool(b) == [t |-> "bool", v |-> IF b THEN 1 ELSE 0]
PyStr(s) == [t |-> "str", v |-> s]
\* a timestamp string, datetime.utcnow().isoformat() + "Z" at clock value n
PyTime(n) == [t |-> "str:time", v |-> n]
NpInt64(n) == [t |-> "numpy.int64", v |-> n]
\* a dict with int keys (labels), as a sequence of [k, v] in insertion order
PyDict(items) == [t |-> "dict:intkeys", v |-> items]
\* a dict with str keys, which is what a JSON object is read back as
JsonDict(items) == [t |-> "dict", v |-> items]

\* isinstance(x, (float, int)): bool is a subclass of int
IsFloatOrInt(x) == x.t \in {"float", "float:nan", "float:inf", "int", "int:big", "bool"}

\* float(x) for x with IsFloatOrInt(x); an int too large raises OverflowError
ToFloat(x) ==
    CASE x.t \in {"float", "float:nan", "float:inf"} -> [err |-> "none", val |-> x]
      [] x.t = "int"     -> [err |-> "none", val |-> PyFloat(x.v * Unit)]
      [] x.t = "bool"    -> [err |-> "none", val |-> PyFloat(x.v * Unit)]
      [] x.t = "int:big" -> [err |-> "OverflowError", val |-> None]

\* 0.0 < f < 1.0 for a float f: false for nan and inf
StrictlyBetween(f) == f.t = "float" /\ 0 < f.v /\ f.v < Unit

---------------------------------------------------------------------------
(* The environment variable PRED_THRESHOLD: None, or a string *)

EnvUnset == [t |-> "unset", v |-> 0]
EnvEmpty == [t |-> "empty", v |-> 0]
\* a string float() rejects, such as "abc"
EnvText == [t |-> "text", v |-> 0]
\* a string float() parses to n hundredths
EnvNum(n) == [t |-> "num", v |-> n]
EnvNaN == [t |-> "nan", v |-> 0]
EnvInf == [t |-> "inf", v |-> 0]

\* float(env_threshold) of a string
ParseFloat(e) ==
    CASE e.t = "num"  -> [err |-> "none", val |-> PyFloat(e.v)]
      [] e.t = "nan"  -> [err |-> "none", val |-> PyNaN]
      [] e.t = "inf"  -> [err |-> "none", val |-> PyInf]
      [] OTHER        -> [err |-> "ValueError", val |-> None]

---------------------------------------------------------------------------
(* Dicts keep insertion order: a sequence of [k, v] with distinct keys *)

DictHas(d, k) == \E i \in 1..Len(d) : d[i].k = k

\* d.get(k): None when the key is absent
DictGet(d, k) ==
    IF DictHas(d, k) THEN d[CHOOSE i \in 1..Len(d) : d[i].k = k].v ELSE None

\* d[k] = v: in place when the key exists, appended otherwise
DictSet(d, k, v) ==
    IF DictHas(d, k)
    THEN [i \in 1..Len(d) |-> IF d[i].k = k THEN [k |-> k, v |-> v] ELSE d[i]]
    ELSE Append(d, [k |-> k, v |-> v])

DictKeys(d) == {d[i].k : i \in 1..Len(d)}

---------------------------------------------------------------------------
(* JSON text, in chunks.  The value of an item chunk is kept as the Python *)
(* value json.load reads from it.                                          *)

Open == [c |-> "{", k |-> "", v |-> None]
Close == [c |-> "}", k |-> "", v |-> None]
Item(k, v) == [c |-> "item", k |-> k, v |-> v]
\* a key and the start of a value that was never finished
Frag(k) == [c |-> "frag", k |-> k, v |-> None]
\* a complete JSON document that is not an object (a number, a list)
Scalar(v) == [c |-> "scalar", k |-> "", v |-> v]
\* bytes that are not UTF-8
BadBytes == [c |-> "bytes", k |-> "", v |-> None]

\* what the encoder accepts: it has no default for a numpy.int64, and the
\* values of a dict are encoded in turn
Serializable(x) ==
    CASE x.t = "numpy.int64" -> FALSE
      [] x.t \in {"dict", "dict:intkeys"} ->
            \A i \in 1..Len(x.v) : x.v[i].v.t # "numpy.int64"
      [] OTHER -> TRUE

\* str(k) of an int key
IntKeyToStr(k) == IF k = 0 THEN "0" ELSE IF k = 1 THEN "1" ELSE "n"

\* The value json.load reads back from what the encoder writes for x: floats
\* (repr round-trips), ints, bools, strings and None come back as they were;
\* the int keys of a dict come back as strings.
JsonValue(x) ==
    IF x.t = "dict:intkeys"
    THEN JsonDict([i \in 1..Len(x.v) |-> [k |-> IntKeyToStr(x.v[i].k), v |-> x.v[i].v]])
    ELSE x

\* the chunks after "{" that the encoder yields for items i.. of d
RECURSIVE iterencode(_, _)
iterencode(d, i) ==
    IF i > Len(d) THEN [chunks |-> <<Close>>, err |-> "none"]
    ELSE IF Serializable(d[i].v)
         THEN LET r == iterencode(d, i + 1)
              IN  [chunks |-> <<Item(d[i].k, JsonValue(d[i].v))>> \o r.chunks,
                   err |-> r.err]
         ELSE [chunks |-> <<Frag(d[i].k)>>, err |-> "TypeError"]

\* json.dump(d, fp, indent=2): the chunks written to fp before it returned or raised
json_dump(d) ==
    LET r == iterencode(d, 1)
    IN  [chunks |-> <<Open>> \o r.chunks, err |-> r.err]

WellFormedObject(text) ==
    /\ Len(text) >= 2
    /\ text[1].c = "{"
    /\ text[Len(text)].c = "}"
    /\ \A i \in 2..(Len(text) - 1) : text[i].c = "item"

\* the dict of an object's items, a repeated key keeping its last value
RECURSIVE ItemsToDict(_, _)
ItemsToDict(text, i) ==
    IF i < 2 THEN <<>>
    ELSE DictSet(ItemsToDict(text, i - 1), text[i].k, text[i].v)

\* json.load(fp) of a file opened with encoding utf-8
json_load(text) ==
    IF \E i \in 1..Len(text) : text[i].c = "bytes"
    THEN [err |-> "UnicodeDecodeError", isdict |-> FALSE, d |-> <<>>]
    ELSE IF Len(text) = 1 /\ text[1].c = "scalar"
    THEN [err |-> "none", isdict |-> FALSE, d |-> <<>>]
    ELSE IF WellFormedObject(text)
    THEN [err |-> "none", isdict |-> TRUE, d |-> ItemsToDict(text, Len(text) - 1)]
    ELSE [err |-> "JSONDecodeError", isdict |-> FALSE, d |-> <<>>]

---------------------------------------------------------------------------
(* The metadata file *)

NoFile == [exists |-> FALSE, perm |-> "rw", text |-> <<>>]
File(text) == [exists |-> TRUE, perm |-> "rw", text |-> text]
\* a file open() refuses with PermissionError
LockedFile(text) == [exists |-> TRUE, perm |-> "none", text |-> text]

\* open(path, "r") then json.load
ReadJson(f) ==
    IF f.perm # "rw"
    THEN [err |-> "OSError", isdict |-> FALSE, d |-> <<>>]
    ELSE json_load(f.text)

---------------------------------------------------------------------------
(* Threshold Resolver *)

Returned(value, source) == [raised |-> "none", value |-> value, source |-> source]
Raised(e) == [raised |-> e, value |-> 0, source |-> ""]

\* lines 98-110: the metadata part of the resolver
ResolveFromMetadata(f) ==
    IF ~f.exists THEN Returned(DEFAULT_THRESHOLD, "default")
    ELSE LET r == ReadJson(f)
             user_threshold == DictGet(r.d, "user_threshold")
             recommended == DictGet(r.d, "recommended_threshold")
         IN  IF r.err \in {"JSONDecodeError", "OSError"}
             THEN Returned(DEFAULT_THRESHOLD, "default")
             ELSE IF r.err # "none" THEN Raised(r.err)
             ELSE IF ~r.isdict THEN Returned(DEFAULT_THRESHOLD, "default")
             ELSE IF IsFloatOrInt(user_threshold) /\ ToFloat(user_threshold).err # "none"
             THEN Raised(ToFloat(user_threshold).err)
             ELSE IF IsFloatOrInt(user_threshold)
                     /\ StrictlyBetween(ToFloat(user_threshold).val)
             THEN Returned(ToFloat(user_threshold).val.v, "metadata:user")
             ELSE IF IsFloatOrInt(recommended) /\ ToFloat(recommended).err # "none"
             THEN Raised(ToFloat(recommended).err)
             ELSE IF IsFloatOrInt(recommended)
                     /\ StrictlyBetween(ToFloat(recommended).val)
             THEN Returned(ToFloat(recommended).val.v, "metadata:recommended")
             ELSE Returned(DEFAULT_THRESHOLD, "default")

\* a resolver that asks for the recommended threshold before the user's
ResolveRecommendedFirst(env, f) ==
    IF env.t \notin {"unset", "empty"}
       /\ ParseFloat(env).err = "none" /\ StrictlyBetween(ParseFloat(env).val)
    THEN Returned(ParseFloat(env).val.v, "env")
    ELSE LET r == IF f.exists THEN ReadJson(f) ELSE [err |-> "none", isdict |-> FALSE, d |-> <<>>]
             user_threshold == DictGet(r.d, "user_threshold")
             recommended == DictGet(r.d, "recommended_threshold")
         IN  IF r.err = "none" /\ r.isdict /\ recommended.t = "float"
                /\ StrictlyBetween(recommended)
             THEN Returned(recommended.v, "metadata:recommended")
             ELSE IF r.err = "none" /\ r.isdict /\ user_threshold.t = "float"
                     /\ StrictlyBetween(user_threshold)
             THEN Returned(user_threshold.v, "metadata:user")
             ELSE Returned(DEFAULT_THRESHOLD, "default")

\* _resolve_threshold_with_source()
resolve_threshold_with_source(env, f) ==
    IF env.t \notin {"unset", "empty"}
       /\ ParseFloat(env).err = "none" /\ StrictlyBetween(ParseFloat(env).val)
    THEN Returned(ParseFloat(env).val.v, "env")
    ELSE ResolveFromMetadata(f)

---------------------------------------------------------------------------
(* Admin token *)

\* os.getenv("ADMIN_TOKEN", "changeme")
ADMIN_TOKEN == "changeme"

\* authorization.replace("Bearer ", "") on the headers of Authorizations
WithoutBearer(authorization) ==
    CASE authorization = "Bearer changeme" -> "changeme"
      [] authorization = "Bearer wrong" -> "wrong"
      [] OTHER -> authorization

\* verify_admin_token(authorization): the status it raises, 0 when it passes.
\* The empty string stands for a request without the header.
verify_admin_token(authorization) ==
    IF authorization = "" THEN 401
    ELSE IF WithoutBearer(authorization) # ADMIN_TOKEN THEN 401
    ELSE 0

Authorizations == {"", "Bearer wrong", "Bearer changeme"}

---------------------------------------------------------------------------
(* Admin threshold update *)

\* "if not 0.0 < threshold < 1.0" accepting both ends
ValidThresholdInclusive(threshold) ==
    threshold.t = "float" /\ 0 <= threshold.v /\ threshold.v <= Unit

\* "if not 0.0 < threshold < 1.0" without the upper end
ValidThresholdNoUpper(threshold) ==
    threshold.t = "float" /\ 0 < threshold.v

\* "0.0 < threshold < 1.0" of update_threshold
ValidThreshold(threshold) == StrictlyBetween(threshold)

\* lines 266-277 starting from an empty dict whatever the file holds
MergedMetadataDiscarding(threshold, f, clock) ==
    DictSet(DictSet(<<>>, "user_threshold", threshold),
            "user_threshold_set_at", PyTime(clock))

\* lines 266-277 keeping a user threshold that is already set
MergedMetadataKeepingFirst(threshold, f, clock) ==
    LET r == IF f.exists THEN ReadJson(f)
             ELSE [err |-> "none", isdict |-> FALSE, d |-> <<>>]
        metadata == IF r.err = "none" /\ r.isdict THEN r.d ELSE <<>>
    IN  IF DictHas(metadata, "user_threshold") THEN metadata
        ELSE DictSet(DictSet(metadata, "user_threshold", threshold),
                     "user_threshold_set_at", PyTime(clock))

\* lines 266-277: the dict update_threshold writes, for a file it could read
MergedMetadata(threshold, f, clock) ==
    LET r == IF f.exists THEN ReadJson(f)
             ELSE [err |-> "none", isdict |-> FALSE, d |-> <<>>]
        metadata == IF r.err = "none" /\ r.isdict THEN r.d ELSE <<>>
    IN  DictSet(DictSet(metadata, "user_threshold", threshold),
                "user_threshold_set_at", PyTime(clock))

\* update_threshold(payload): [status, file] where file is the metadata file
\* it leaves.  An error other than JSONDecodeError while reading propagates.
update_threshold(threshold, f, clock) ==
    IF ~ValidThreshold(threshold) THEN [status |-> 400, file |-> f]
    ELSE IF f.exists /\ ReadJson(f).err \notin {"none", "JSONDecodeError"}
    THEN [status |-> 500, file |-> f]
    ELSE LET w == json_dump(MergedMetadata(threshold, f, clock))
         IN  [status |-> IF w.err = "none" THEN 200 ELSE 500,
              file |-> File(w.chunks)]

---------------------------------------------------------------------------
(* Training *)

NoDataset == [exists |-> FALSE, total |-> 0, missing |-> 0, pos |-> 0,
              fit |-> "ok", auc |-> 0]
\* a CSV of `total` rows, `missing` of them without result, `pos` of the rest
\* with result 1; fit is what fitting and evaluating does on it ("ok" or the
\* exception raised) and auc the ROC-AUC it measures
Dataset(total, missing, pos, fit, auc) ==
    [exists |-> TRUE, total |-> total, missing |-> missing, pos |-> pos,
     fit |-> fit, auc |-> auc]

\* len(df) after df.dropna(subset=["result"])
Labelled(ds) == ds.total - ds.missing

\* dict(df["result"].value_counts()): int label -> numpy.int64 count, the
\* labels that occur, most frequent first
value_counts(ds) ==
    LET n1 == ds.pos
        n0 == Labelled(ds) - ds.pos
        e1 == IF n1 > 0 THEN <<[k |-> 1, v |-> NpInt64(n1)]>> ELSE <<>>
        e0 == IF n0 > 0 THEN <<[k |-> 0, v |-> NpInt64(n0)]>> ELSE <<>>
    IN  PyDict(IF n1 >= n0 THEN e1 \o e0 ELSE e0 \o e1)

\* the metadata dict of train_model
TrainMetadata(ds) ==
    << [k |-> "roc_auc", v |-> PyFloat(ds.auc)],
       [k |-> "samples_used", v |-> PyInt(Labelled(ds))],
       [k |-> "class_counts", v |-> value_counts(ds)],
       [k |-> "recommended_threshold", v |-> PyFloat(RECOMMENDED_THRESHOLD)] >>

NoArtifact == [present |-> FALSE, rows |-> 0, auc |-> 0]
\* the bundle {"model", "scaler"} fitted on ds
Fitted(ds) == [present |-> TRUE, rows |-> Labelled(ds), auc |-> ds.auc]

\* train_model(df, model_path, metadata_path): [raised, artifact, file]
train_model(ds, art, f) ==
    IF ds.fit # "ok" THEN [raised |-> ds.fit, artifact |-> art, file |-> f]
    ELSE IF f.exists /\ f.perm # "rw"
    THEN [raised |-> "OSError", artifact |-> Fitted(ds), file |-> f]
    ELSE LET w == json_dump(TrainMetadata(ds))
         IN  [raised |-> w.err, artifact |-> Fitted(ds), file |-> File(w.chunks)]

\* train_from_csv counting the rows before dropping those without result
train_from_csv_CountingAllRows(ds, art, f) ==
    IF ~ds.exists THEN [raised |-> "FileNotFoundError", artifact |-> art, file |-> f]
    ELSE IF ds.total < MIN_SAMPLES
    THEN [raised |-> "ValueError", artifact |-> art, file |-> f]
    ELSE train_model(ds, art, f)

\* train_from_csv(csv_path, model_path, metadata_path)
train_from_csv(ds, art, f) ==
    IF ~ds.exists THEN [raised |-> "FileNotFoundError", artifact |-> art, file |-> f]
    ELSE IF Labelled(ds) < MIN_SAMPLES
    THEN [raised |-> "ValueError", artifact |-> art, file |-> f]
    ELSE train_model(ds, art, f)

\* retrain(): the status of the response, with what the call left on disk
retrain(ds, art, f) ==
    LET r == train_from_csv(ds, art, f)
    IN  [status |-> CASE r.raised = "none" -> 200
                      [] r.raised = "FileNotFoundError" -> 404
                      [] r.raised = "ValueError" -> 400
                      [] OTHER -> 500,
         raised |-> r.raised, artifact |-> r.artifact, file |-> r.file]

---------------------------------------------------------------------------
(* Inputs *)

\* PRED_THRESHOLD as the process may find it
EnvValues ==
    {EnvUnset, EnvEmpty, EnvText, EnvNaN, EnvInf,
     EnvNum(0), EnvNum(75), EnvNum(100), EnvNum(150)}

\* payload.threshold of a threshold update
Payloads ==
    {PyFloat(0), PyFloat(40), PyFloat(80), PyFloat(100), PyFloat(150), PyNaN}

\* student_data_sample.csv as a retrain may find it
Datasets ==
    {NoDataset,
     Dataset(5, 0, 3, "ok", 90),
     Dataset(12, 3, 6, "ok", 90),
     Dataset(12, 2, 6, "ok", 90),
     Dataset(14, 0, 5, "ok", 75),
     Dataset(12, 0, 12, "ValueError", 0),
     Dataset(12, 0, 6, "RuntimeError", 0)}

\* a metadata file left by an earlier deployment: 20 samples, ROC-AUC 0.9,
\* recommended threshold 0.55
DeployedItems ==
    << Item("roc_auc", PyFloat(90)),
       Item("samples_used", PyInt(20)),
       Item("class_counts",
            JsonDict(<<[k |-> "1", v |-> PyInt(12)], [k |-> "0", v |-> PyInt(8)]>>)),
       Item("recommended_threshold", PyFloat(55)) >>
DeployedFile == File(<<Open>> \o DeployedItems \o <<Close>>)
DeployedFileWithUser ==
    File(<<Open>> \o DeployedItems
         \o <<Item("user_threshold", PyFloat(80)),
              Item("user_threshold_set_at", PyTime(0)), Close>>)
DeployedArtifact == [present |-> TRUE, rows |-> 20, auc |-> 90]

\* what the service may find on disk when it starts: <<metadata file, artifact>>
InitialDisks ==
    { <<NoFile, NoArtifact>>,
      <<DeployedFile, DeployedArtifact>>,
      <<DeployedFileWithUser, DeployedArtifact>>,
      <<LockedFile(DeployedFile.text), DeployedArtifact>>,
      <<File(<<BadBytes>>), NoArtifact>>,
      <<File(<<>>), NoArtifact>> }

\* values a hand-edited or foreign metadata file may give a threshold key
ThresholdValues ==
    {PyFloat(55), PyFloat(80), PyFloat(0), PyFloat(100), PyFloat(150), PyNaN,
     PyInt(0), PyInt(1), PyBigInt, PyBool(TRUE), PyStr("0.5"), None}

\* marks a key the object does not have
Absent == [t |-> "absent", v |-> 0]
OptionalItem(k, x) == IF x = Absent THEN <<>> ELSE <<Item(k, x)>>

\* JSON objects with either, both or none of the threshold keys
ObjectFiles ==
    { File(<<Open>> \o OptionalItem("recommended_threshold", r)
                    \o OptionalItem("user_threshold", u) \o <<Close>>) :
        r \in ThresholdValues \cup {Absent}, u \in ThresholdValues \cup {Absent} }

\* files that hold no JSON object
BrokenFiles ==
    { File(<<>>),
      File(<<Open>>),
      File(<<Open, Item("roc_auc", PyFloat(90))>>),
      File(<<Open, Item("roc_auc", PyFloat(90)), Frag("class_counts")>>),
      File(<<Open, Item("user_threshold", PyFloat(80)), Close, Close>>),
      File(<<Scalar(PyFloat(50))>>),
      File(<<BadBytes>>),
      LockedFile(<<Open, Item("user_threshold", PyFloat(80)), Close>>) }

AnyFiles == {NoFile} \cup ObjectFiles \cup BrokenFiles

---------------------------------------------------------------------------
(* State: the metadata file, the artifact file, the clock, and the last    *)
(* request with its response.                                              *)

Request(op, authorization, env, v, ds, status, result) ==
    [op |-> op, authorization |-> authorization, env |-> env, v |-> v, ds |-> ds,
     status |-> status, result |-> result]

NoResult == Raised("")
NoRequest == Request("none", "", EnvUnset, None, NoDataset, 0, NoResult)

Init ==
    /\ \E disk \in InitialDisks : metadataFile = disk[1] /\ artifact = disk[2]
    /\ now = 1
    /\ last = NoRequest

\* GET /api/settings/threshold with PRED_THRESHOLD = env
GetThreshold(authorization, env) ==
    LET denied == verify_admin_token(authorization)
        r == resolve_threshold_with_source(env, metadataFile)
    IN  /\ last' = IF denied # 0
                   THEN Request("get_threshold", authorization, env, None, NoDataset,
                                denied, NoResult)
                   ELSE Request("get_threshold", authorization, env, None, NoDataset,
                                IF r.raised = "none" THEN 200 ELSE 500, r)
        /\ UNCHANGED <<metadataFile, artifact, now>>

\* POST /api/settings/threshold with payload.threshold = threshold
UpdateThreshold(authorization, threshold) ==
    LET denied == verify_admin_token(authorization)
        r == update_threshold(threshold, metadataFile, now)
    IN  IF denied # 0
        THEN /\ last' = Request("update_threshold", authorization, EnvUnset, threshold,
                                NoDataset, denied, NoResult)
             /\ UNCHANGED <<metadataFile, artifact, now>>
        ELSE /\ r.file # metadataFile => now < MaxClock
             /\ last' = Request("update_threshold", authorization, EnvUnset, threshold,
                                NoDataset, r.status, NoResult)
             /\ metadataFile' = r.file
             /\ now' = IF r.file # metadataFile THEN now + 1 ELSE now
             /\ UNCHANGED artifact

\* POST /api/retrain with student_data_sample.csv = ds
Retrain(authorization, ds) ==
    LET denied == verify_admin_token(authorization)
        r == retrain(ds, artifact, metadataFile)
    IN  IF denied # 0
        THEN /\ last' = Request("retrain", authorization, EnvUnset, None, ds, denied,
                                NoResult)
             /\ UNCHANGED <<metadataFile, artifact, now>>
        ELSE /\ last' = Request("retrain", authorization, EnvUnset, None, ds, r.status,
                                Raised(r.raised))
             /\ metadataFile' = r.file
             /\ artifact' = r.artifact
             /\ UNCHANGED now

Next ==
    \/ \E a \in Authorizations, e \in EnvValues : GetThreshold(a, e)
    \/ \E a \in Authorizations, v \in Payloads : UpdateThreshold(a, v)
    \/ \E a \in Authorizations, ds \in Datasets : Retrain(a, ds)

Spec == Init /\ [][Next]_vars

(* The service started on an empty models directory *)

InitFresh ==
    /\ metadataFile = NoFile
    /\ artifact = NoArtifact
    /\ now = 1
    /\ last = NoRequest

SpecFresh == InitFresh /\ [][Next]_vars

(* The resolver alone, over every metadata file and environment value *)

InitResolve ==
    /\ metadataFile \in AnyFiles
    /\ artifact = NoArtifact
    /\ now = 1
    /\ last = NoRequest

NextResolve == \E a \in Authorizations, e \in EnvValues : GetThreshold(a, e)

SpecResolve == InitResolve /\ [][NextResolve]_vars

---------------------------------------------------------------------------
(* Properties *)

\* the value the file's text gives key k, Absent when no item has the key
ItemValue(f, k) ==
    IF \E i \in 1..Len(f.text) : f.text[i].c = "item" /\ f.text[i].k = k
    THEN f.text[CHOOSE i \in 1..Len(f.text) :
                    f.text[i].c = "item" /\ f.text[i].k = k].v
    ELSE Absent

\* a float strictly between 0.0 and 1.0
InOpenUnitInterval(x) == x.t = "float" /\ x.v > 0 /\ x.v < 100

\* the metadata as a set of <<key, value>>, empty unless the file holds an object
KeyValues(f) ==
    IF f.exists /\ f.perm = "rw" /\ WellFormedObject(f.text)
    THEN {<<f.text[i].k, f.text[i].v>> : i \in 2..(Len(f.text) - 1)}
    ELSE {}

HoldsObject(f) == f.exists /\ f.perm = "rw" /\ WellFormedObject(f.text)

UserKeys == {"user_threshold", "user_threshold_set_at"}
TrainingKeys == {"roc_auc", "samples_used", "class_counts", "recommended_threshold"}

Answered(op) == last.op = op /\ last.status # 401
AnsweredNext(op) == last'.op = op /\ last'.status # 401

(* C1 *)

\* the environment is unset or a float, the metadata is absent or an object
\* whose thresholds, where present, are floats
C1_Case ==
    /\ Answered("get_threshold")
    /\ last.env.t \in {"unset", "num"}
    /\ \/ ~metadataFile.exists
       \/ /\ metadataFile \in ObjectFiles
          /\ ItemValue(metadataFile, "user_threshold").t \in {"float", "absent"}
          /\ ItemValue(metadataFile, "recommended_threshold").t \in {"float", "absent"}

\* the candidates in priority order, as <<value, source>>
C1_Candidates ==
    << <<IF last.env.t = "num" THEN PyFloat(last.env.v) ELSE Absent, "env">>,
       <<ItemValue(metadataFile, "user_threshold"), "metadata:user">>,
       <<ItemValue(metadataFile, "recommended_threshold"), "metadata:recommended">>,
       <<PyFloat(60), "default">> >>

\* C1: resolve_threshold returns the first candidate, in the order environment,
\* metadata user_threshold, metadata recommended_threshold, default 0.6, that is
\* strictly between 0.0 and 1.0, with its source.
C1_PriorityOrder ==
    C1_Case =>
        LET first == CHOOSE i \in 1..4 :
                        /\ InOpenUnitInterval(C1_Candidates[i][1])
                        /\ \A j \in 1..(i - 1) : ~InOpenUnitInterval(C1_Candidates[j][1])
        IN  /\ last.result.raised = "none"
            /\ last.result.value = C1_Candidates[first][1].v
            /\ last.result.source = C1_Candidates[first][2]

\* an out-of-range environment value and both thresholds in the metadata: the
\* user threshold is returned
C1_Witness ==
    /\ C1_Case
    /\ last.env = EnvNum(150)
    /\ ItemValue(metadataFile, "user_threshold") = PyFloat(80)
    /\ ItemValue(metadataFile, "recommended_threshold") = PyFloat(55)
    /\ last.result = Returned(80, "metadata:user")

(* C2 *)

\* C2: resolve_threshold never raises and returns a threshold strictly between
\* 0.0 and 1.0, whatever the environment value and whatever the metadata file
\* holds (here: every file whose bytes decode as text).
C2_NeverRaises ==
    (/\ Answered("get_threshold")
     /\ \A i \in 1..Len(metadataFile.text) : metadataFile.text[i].c # "bytes")
    => /\ last.result.raised = "none"
       /\ last.result.value > 0
       /\ last.result.value < 100

(* C3 *)

\* C3: a threshold update with 0.0 < v < 1.0 on a metadata file holding an object
\* leaves an object with every other key as it was and no key added but
\* user_threshold and user_threshold_set_at; with no metadata file it creates an
\* object of exactly those two keys.
C3_UpdateKeepsOtherKeys ==
    [][ (AnsweredNext("update_threshold") /\ InOpenUnitInterval(last'.v)) =>
          /\ HoldsObject(metadataFile) =>
                /\ HoldsObject(metadataFile')
                /\ \A kv \in KeyValues(metadataFile) :
                      kv[1] \notin UserKeys => kv \in KeyValues(metadataFile')
                /\ \A kv \in KeyValues(metadataFile') :
                      kv[1] \notin UserKeys => kv \in KeyValues(metadataFile)
                /\ <<"user_threshold", last'.v>> \in KeyValues(metadataFile')
          /\ ~metadataFile.exists =>
                /\ HoldsObject(metadataFile')
                /\ {kv[1] : kv \in KeyValues(metadataFile')} = UserKeys
      ]_vars

\* an update to 0.4 has been written into the deployed metadata, whose training
\* keys are still there
C3_Witness ==
    /\ Answered("update_threshold")
    /\ last.status = 200
    /\ last.v = PyFloat(40)
    /\ <<"user_threshold", PyFloat(40)>> \in KeyValues(metadataFile)
    /\ <<"roc_auc", PyFloat(90)>> \in KeyValues(metadataFile)
    /\ <<"recommended_threshold", PyFloat(55)>> \in KeyValues(metadataFile)

(* C4 *)

\* C4: a threshold request without environment override that immediately
\* follows a successful update to v is answered (v, metadata:user).
C4_UpdateThenResolve ==
    [][ (/\ Answered("update_threshold")
         /\ last.status = 200
         /\ AnsweredNext("get_threshold")
         /\ last'.env = EnvUnset)
        => last'.result = Returned(last.v.v, "metadata:user")
      ]_vars

\* 0.4 is resolved from a metadata file that also recommends 0.55: only an
\* update can have put 0.4 there
C4_Witness ==
    /\ Answered("get_threshold")
    /\ last.env = EnvUnset
    /\ last.result = Returned(40, "metadata:user")
    /\ <<"recommended_threshold", PyFloat(55)>> \in KeyValues(metadataFile)

(* C5 *)

\* C5: a threshold update with v not strictly between 0.0 and 1.0 is refused
\* (status 400) and leaves the metadata file as it was, so the resolver answers
\* as before for every environment value.
C5_InvalidUpdateRefused ==
    [][ (AnsweredNext("update_threshold") /\ ~InOpenUnitInterval(last'.v)) =>
          /\ last'.status = 400
          /\ metadataFile' = metadataFile
          /\ \A e \in EnvValues :
                resolve_threshold_with_source(e, metadataFile')
                    = resolve_threshold_with_source(e, metadataFile)
      ]_vars

\* an update to exactly 1.0 was refused while a metadata file exists
C5_Witness ==
    /\ Answered("update_threshold")
    /\ last.v = PyFloat(100)
    /\ last.status = 400
    /\ HoldsObject(metadataFile)

(* C6 *)

\* C6: a retrain whose dataset does not exist answers 404 (FileNotFoundError),
\* one whose dataset has fewer than 10 rows with a result answers 400
\* (ValueError); both leave the artifact and the metadata file as they were.
C6_PreconditionFailureWritesNothing ==
    [][ AnsweredNext("retrain") =>
          /\ ~last'.ds.exists =>
                /\ last'.status = 404
                /\ last'.result.raised = "FileNotFoundError"
                /\ metadataFile' = metadataFile
                /\ artifact' = artifact
          /\ (last'.ds.exists /\ last'.ds.total - last'.ds.missing < 10) =>
                /\ last'.status = 400
                /\ last'.result.raised = "ValueError"
                /\ metadataFile' = metadataFile
                /\ artifact' = artifact
      ]_vars

\* a dataset of 12 rows, 3 without result, was refused
C6_Witness ==
    /\ Answered("retrain")
    /\ last.ds.exists
    /\ last.ds.total = 12
    /\ last.ds.missing = 3
    /\ last.status = 400
    /\ metadataFile.exists

(* C7 *)

\* C7: a training run on a dataset that exists, has at least 10 rows with a
\* result and fits without error (the metadata file, if any, being writable)
\* succeeds, and leaves a metadata object holding
\* exactly the keys the run writes, with recommended_threshold 0.6 and
\* samples_used the number of rows with a result; the resolver then answers
\* (0.6, metadata:recommended) without environment override.
C7_TrainingReplacesMetadata ==
    (/\ Answered("retrain")
     /\ last.ds.exists
     /\ last.ds.total - last.ds.missing >= 10
     /\ last.ds.fit = "ok"
     /\ metadataFile.perm = "rw")
    => /\ last.status = 200
       /\ HoldsObject(metadataFile)
       /\ {kv[1] : kv \in KeyValues(metadataFile)} = TrainingKeys
       /\ <<"recommended_threshold", PyFloat(60)>> \in KeyValues(metadataFile)
       /\ <<"samples_used", PyInt(last.ds.total - last.ds.missing)>>
             \in KeyValues(metadataFile)
       /\ resolve_threshold_with_source(EnvUnset, metadataFile)
             = Returned(60, "metadata:recommended")

(* C8 *)

\* C8: whenever a training run or a threshold update changes the metadata
\* file, the file holds a valid JSON object afterwards.
C8_ValidJsonAfterEveryWrite ==
    [][ metadataFile' # metadataFile => HoldsObject(metadataFile') ]_vars

(* C9 *)

\* C9: started without a metadata file, every recommended_threshold and
\* user_threshold the metadata file comes to hold is strictly between 0.0 and 1.0.
C9_ThresholdsInRange ==
    \A i \in 1..Len(metadataFile.text) :
        (/\ metadataFile.text[i].c = "item"
         /\ metadataFile.text[i].k \in {"recommended_threshold", "user_threshold"})
        => InOpenUnitInterval(metadataFile.text[i].v)

\* a user threshold has been written by an update
C9_Witness ==
    /\ Answered("update_threshold")
    /\ last.status = 200
    /\ ItemValue(metadataFile, "user_threshold") = last.v

(* C10 *)

\* C10: a training run (the metadata file being readable and writable) either
\* leaves both the artifact and the metadata file as they were, or leaves an
\* artifact and a metadata object that holds the ROC-AUC and the sample count
\* of the run that fitted that artifact.
C10_ArtifactMatchesMetadata ==
    [][ (AnsweredNext("retrain") /\ metadataFile.perm = "rw") =>
          \/ artifact' = artifact /\ metadataFile' = metadataFile
          \/ /\ artifact'.present
             /\ artifact'.rows = last'.ds.total - last'.ds.missing
             /\ <<"roc_auc", PyFloat(artifact'.auc)>> \in KeyValues(metadataFile')
             /\ <<"samples_used", PyInt(artifact'.rows)>> \in KeyValues(metadataFile')
      ]_vars

====
